---------------------------- MODULE Spec2Model ----------------------------
(***************************************************************************)
(* testflightTracker: the poll round of main.py (fetch tasks behind a      *)
(* semaphore, completion-order consumption, classification, dedup, one     *)
(* notification per round), Notifier.notify with its per-endpoint sends,   *)
(* and Notifier.decrypt_secret.                                            *)
(*                                                                         *)
(* Text is a sequence of one-character strings, so that lower(), the       *)
(* substring test and the f-string of main.py are computed, not assumed.   *)
(* Bytes are integers 0..255.                                              *)
(***************************************************************************)
EXTENDS Integers, Sequences, FiniteSets, TLC

(***************************************************************************)
(* Text helpers (Python str operations used by main.py).                   *)
(***************************************************************************)
\* Python's None where a text is expected: no text, as texts are sequences of
\* single characters.
None == <<"None">>

UpperAlpha == <<"A","B","C","D","E","F","G","H","I","J","K","L","M",
                "N","O","P","Q","R","S","T","U","V","W","X","Y","Z">>

LowerAlpha == <<"a","b","c","d","e","f","g","h","i","j","k","l","m",
                "n","o","p","q","r","s","t","u","v","w","x","y","z">>

\* str.lower() on one character (ASCII letters).
LowerChar(c) ==
    IF \E k \in 1..26 : UpperAlpha[k] = c
    THEN LowerAlpha[CHOOSE k \in 1..26 : UpperAlpha[k] = c]
    ELSE c

\* str.lower()
Lower(s) == [k \in 1..Len(s) |-> LowerChar(s[k])]

\* Python's `sub in s`
Contains(sub, s) ==
    \E k \in 0..(Len(s) - Len(sub)) :
        \A j \in 1..Len(sub) : s[k + j] = sub[j]

\* The sentinel word of main.py line 100.
Sentinel == <<"f","u","l","l">>

\* str.strip() as applied by get_text(strip=True): blanks at both ends go.
RECURSIVE LStrip(_)
LStrip(s) == IF s /= <<>> /\ Head(s) = " " THEN LStrip(Tail(s)) ELSE s

RECURSIVE RStrip(_)
RStrip(s) ==
    IF s /= <<>> /\ s[Len(s)] = " " THEN RStrip(SubSeq(s, 1, Len(s) - 1)) ELSE s

Strip(s) == RStrip(LStrip(s))

\* "\n".join(lines)
RECURSIVE Join(_)
Join(lines) ==
    IF lines = <<>> THEN <<>>
    ELSE IF Len(lines) = 1 THEN lines[1]
    ELSE lines[1] \o <<"\n">> \o Join(Tail(lines))

Range(f) == {f[x] : x \in DOMAIN f}


(***************************************************************************)
(* Notifier.decrypt_secret (notify.py 33-43) and what it calls.            *)
(* A str is a sequence of code points, bytes are 0..255, and a base64 text *)
(* is the sequence of its characters' alphabet indices 0..63, with 64 for  *)
(* the padding character "=".                                              *)
(***************************************************************************)
\* Python's None where a str of code points is expected.
NoKey == <<-1>>

\* AES.block_size
BlockSize == 16

\* The key sizes AES.new accepts.
KeySizes == {16, 24, 32}

B64Pad == 64

\* str.encode(): UTF-8, for code points below 0x800.
RECURSIVE Utf8Encode(_)
Utf8Encode(s) ==
    IF s = <<>> THEN <<>>
    ELSE LET c == Head(s)
         IN (IF c < 128 THEN <<c>>
             ELSE <<192 + (c \div 64), 128 + (c % 64)>>) \o Utf8Encode(Tail(s))

\* bytes.decode(): UTF-8 with one- and two-byte sequences; anything else (a
\* stray continuation byte, a truncated or overlong sequence, a lead byte of a
\* longer sequence) is a UnicodeDecodeError.
RECURSIVE Utf8Decode(_)
Utf8Decode(b) ==
    IF b = <<>> THEN [ok |-> TRUE, value |-> <<>>]
    ELSE IF b[1] < 128
    THEN LET rest == Utf8Decode(Tail(b))
         IN IF rest.ok THEN [ok |-> TRUE, value |-> <<b[1]>> \o rest.value]
            ELSE rest
    ELSE IF b[1] \in 194..223 /\ Len(b) >= 2 /\ b[2] \in 128..191
    THEN LET rest == Utf8Decode(Tail(Tail(b)))
         IN IF rest.ok
            THEN [ok |-> TRUE,
                  value |-> <<(b[1] - 192) * 64 + (b[2] - 128)>> \o rest.value]
            ELSE rest
    ELSE [ok |-> FALSE, value |-> "UnicodeDecodeError"]

\* base64.b64encode
RECURSIVE B64Encode(_)
B64Encode(b) ==
    IF b = <<>> THEN <<>>
    ELSE IF Len(b) = 1
    THEN << b[1] \div 4, (b[1] % 4) * 16, B64Pad, B64Pad >>
    ELSE IF Len(b) = 2
    THEN << b[1] \div 4, (b[1] % 4) * 16 + (b[2] \div 16), (b[2] % 16) * 4, B64Pad >>
    ELSE << b[1] \div 4, (b[1] % 4) * 16 + (b[2] \div 16),
            (b[2] % 16) * 4 + (b[3] \div 64), b[3] % 64 >>
         \o B64Encode(SubSeq(b, 4, Len(b)))

\* base64.b64decode of a text of alphabet characters and "=": four characters
\* give three bytes, a final group may end in "=" or "==", and any other use of
\* "=" or a length that is no multiple of four is binascii.Error.  The library
\* tolerates some misplaced "=" (excess or interior padding); the texts drawn
\* in DecInputs are well formed or truncated, where both agree.
RECURSIVE B64Decode(_)
B64Decode(t) ==
    IF t = <<>> THEN [ok |-> TRUE, value |-> <<>>]
    ELSE IF Len(t) < 4 THEN [ok |-> FALSE, value |-> "binascii.Error"]
    ELSE LET a == t[1]
             b == t[2]
             c == t[3]
             d == t[4]
             last == Len(t) = 4
         IN IF a = B64Pad \/ b = B64Pad
            THEN [ok |-> FALSE, value |-> "binascii.Error"]
            ELSE IF c = B64Pad
            THEN IF d = B64Pad /\ last
                 THEN [ok |-> TRUE, value |-> << a * 4 + (b \div 16) >>]
                 ELSE [ok |-> FALSE, value |-> "binascii.Error"]
            ELSE IF d = B64Pad
            THEN IF last
                 THEN [ok |-> TRUE,
                       value |-> << a * 4 + (b \div 16), (b % 16) * 16 + (c \div 4) >>]
                 ELSE [ok |-> FALSE, value |-> "binascii.Error"]
            ELSE LET rest == B64Decode(SubSeq(t, 5, Len(t)))
                 IN IF rest.ok
                    THEN [ok |-> TRUE,
                          value |-> << a * 4 + (b \div 16), (b % 16) * 16 + (c \div 4),
                                       (c % 4) * 64 + d >> \o rest.value]
                    ELSE rest

\* The block cipher stands for AES: all decrypt_secret relies on is that, per
\* key, decryption is the inverse of encryption on every 16-byte block, block by
\* block (ECB).  Here a block is shifted bytewise by the key and rotated by one.
KeyByte(key, j) == key[((j - 1) % Len(key)) + 1]

EncryptBlock(key, block) ==
    [j \in 1..BlockSize |->
        (block[(j % BlockSize) + 1] + KeyByte(key, j)) % 256]

DecryptBlock(key, block) ==
    [j \in 1..BlockSize |->
        LET src == ((j + BlockSize - 2) % BlockSize) + 1
        IN (block[src] + 256 - KeyByte(key, src)) % 256]

RECURSIVE EcbEncrypt(_, _)
EcbEncrypt(key, data) ==
    IF data = <<>> THEN <<>>
    ELSE EncryptBlock(key, SubSeq(data, 1, BlockSize))
         \o EcbEncrypt(key, SubSeq(data, BlockSize + 1, Len(data)))

RECURSIVE EcbDecrypt(_, _)
EcbDecrypt(key, data) ==
    IF data = <<>> THEN <<>>
    ELSE DecryptBlock(key, SubSeq(data, 1, BlockSize))
         \o EcbDecrypt(key, SubSeq(data, BlockSize + 1, Len(data)))

\* PKCS#7 padding, the encrypting side's: 1..16 bytes, each the pad length.
PkcsPad(data) ==
    LET n == BlockSize - (Len(data) % BlockSize)
    IN data \o [j \in 1..n |-> n]

\* What produces a secret_enc for a str: encode, pad, encrypt, base64.
EncryptSecret(key, plain) ==
    B64Encode(EcbEncrypt(Utf8Encode(key), PkcsPad(Utf8Encode(plain))))

\* Notifier.__init__ (lines 18-31): `aes_key or os.getenv("WX_AES_KEY")`.
NotifierKey(aes_key_arg, env_key) ==
    IF aes_key_arg /= NoKey /\ aes_key_arg /= <<>> THEN aes_key_arg ELSE env_key

\* The strip with the pad length taken modulo the block size: a full block of
\* padding is left in place.
StripPad_KeepsFullBlock(decrypted, pad) ==
    IF pad % BlockSize = 0 \/ pad >= Len(decrypted) THEN decrypted
    ELSE SubSeq(decrypted, 1, Len(decrypted) - pad)

\* Python's decrypted[:-pad]: -0 is 0, so pad = 0 leaves nothing; a pad beyond
\* the length leaves nothing either.
StripPad(decrypted, pad) ==
    IF pad = 0 \/ pad >= Len(decrypted) THEN <<>>
    ELSE SubSeq(decrypted, 1, Len(decrypted) - pad)

\* Lines 39-40: AES.new(key, MODE_ECB).decrypt(b64decode(secret_enc)), or the
\* error either raises.
CipherDecrypt(key, secret_enc) ==
    LET raw == B64Decode(secret_enc)
    IN IF Len(key) \notin KeySizes THEN [ok |-> FALSE, value |-> "ValueError"]
       ELSE IF ~raw.ok THEN raw
       ELSE IF Len(raw.value) % BlockSize /= 0
       THEN [ok |-> FALSE, value |-> "ValueError"]
       ELSE [ok |-> TRUE, value |-> EcbDecrypt(key, raw.value)]

\* decrypt_secret, lines 33-43: the str returned (ok) or the exception raised.
DecryptSecret(aes_key, secret_enc) ==
    IF aes_key = NoKey \/ aes_key = <<>> THEN [ok |-> FALSE, value |-> "ValueError"]
    ELSE LET dec == CipherDecrypt(Utf8Encode(aes_key), secret_enc)
         IN IF ~dec.ok THEN dec
            ELSE IF dec.value = <<>> THEN [ok |-> FALSE, value |-> "IndexError"]
            ELSE Utf8Decode(StripPad(dec.value, dec.value[Len(dec.value)]))

(***************************************************************************)
(* Program constants of main.py.                                           *)
(***************************************************************************)
ENABLE_LOOP == TRUE

LOOP_DURATION == 3600

\* int(os.getenv("CONCURRENCY_LIMIT", "500")): run here with the override 2.
CONCURRENCY_LIMIT == 2

\* range(3) of the retry loop.
MaxAttempts == 3

\* The main loop is followed for this many rounds.
MaxRounds == 2

(***************************************************************************)
(* Configuration inputs (config.py is not part of the sources): the texts  *)
(* the configurations and the pages are built from.                        *)
(***************************************************************************)
GroupBeta == <<"b","e","t","a">>

GroupBetaCap == <<"B","e","t","a">>

ExampleGroup == <<"e","x","a","m","p","l","e","G","r","o","u","p">>

UrlA == <<"h","t","t","p",":","/","/","a">>

UrlB == <<"h","t","t","p",":","/","/","b">>

UrlX == <<"h","t","t","p",":","/","/","x">>

TextFull == <<"F","u","l","l">>

TextFULL == <<"F","U","L","L">>

TextBetaFull == <<"T","h","i","s"," ","b","e","t","a"," ","i","s"," ","f","u","l","l",".">>

TextClosed == <<"C","l","o","s","e","d">>

TextOpen == <<"O","p","e","n">>

TextOPEN == <<"O","P","E","N">>

TextOpenPadded == <<" ","O","p","e","n"," ">>

Title == <<"T","e","s","t","F","l","i","g","h","t">>


\* TESTFLIGHT_URLS: a dict (group -> list of URLs) in insertion order, here a
\* sequence of entries with distinct groups.
Configs ==
    { << [group |-> GroupBeta, urls |-> <<UrlA, UrlB>>],
         [group |-> ExampleGroup, urls |-> <<UrlX>>] >>,
      << [group |-> GroupBeta, urls |-> <<UrlA, UrlA>>],
         [group |-> GroupBetaCap, urls |-> <<UrlA>>] >>,
      << [group |-> ExampleGroup, urls |-> <<UrlX, UrlA>>] >> }

\* What a server may answer: the page without the marker class="beta-status",
\* with the marker but no div/span under it, a page on which the parser
\* raises, or a page whose span holds `text`.
Page(text) == [marker |-> TRUE, parse |-> "span", text |-> text]

Bodies ==
    { [marker |-> FALSE, parse |-> "span", text |-> <<>>],
      [marker |-> TRUE, parse |-> "nospan", text |-> <<>>],
      [marker |-> TRUE, parse |-> "error", text |-> <<>>] }
    \cup { Page(t) : t \in { <<>>, TextFull, TextFULL, TextBetaFull,
                             TextOpen, TextOPEN, TextOpenPadded } }

(***************************************************************************)
(* State.                                                                  *)
(***************************************************************************)
VARIABLES
    TESTFLIGHT_URLS,  \* config.TESTFLIGHT_URLS
    NOFITY_CONFIG,    \* config.NOFITY_CONFIG, the Notifier's config
    aes_key,          \* Notifier.aes_key
    pc_main,          \* where the program is: start, fetch, notify, check,
                      \* wait, exit; direct and decrypt for a lone call
    loop_count,       \* main.py line 125
    tasks,            \* the fetch tasks of the round, in creation order
    task_map,         \* task object -> (group, url), main.py line 77
    sem_value,        \* free permits of asyncio.Semaphore
    waiters,          \* tasks suspended in sem.acquire(), FIFO
    done_q,           \* finished tasks as_completed has not handed out yet
    n_consumed,       \* iterations of the as_completed loop so far
    notify_results,   \* main.py line 86
    seen,             \* main.py line 87
    line_src,         \* history: the task whose result made each line
    dispatched,       \* history: the notify calls of this round
    call,             \* the arguments of the notify call
    sends,            \* notify's send coroutines, in the order of its list
    results,          \* what notify returned
    dec,              \* a decrypt_secret call: argument, origin, outcome
    log,              \* the log records emitted in this round
    completed,        \* history: the tasks of the round in the order they ended
    prev,             \* history: what the round before this one reported
    clock,            \* time units since the round's tasks were created
    enable_loop,      \* main.py line 9 as main() reads it (line 122)
    loop_duration,    \* main.py line 11 as main() reads it (line 132)
    elapsed,          \* time.time() - start_time at the last duration check
    n_checks          \* history: evaluations of the condition of line 132

inputs == << TESTFLIGHT_URLS, NOFITY_CONFIG, aes_key, enable_loop, loop_duration >>

loopVars == << elapsed, n_checks >>

notifyVars == << call, sends, results >>

vars == << TESTFLIGHT_URLS, NOFITY_CONFIG, aes_key, pc_main, loop_count, tasks,
           task_map, sem_value, waiters, done_q, n_consumed, notify_results,
           seen, line_src, dispatched, call, sends, results, dec, log,
           completed, prev, clock, enable_loop, loop_duration, elapsed,
           n_checks >>

\* What a request may meet: a response (whatever its HTTP status) or an
\* exception (connection error, timeout).
HttpStatuses == {"200", "500"}

(***************************************************************************)
(* Logging (logger.py): the records that reach the handler.                *)
(***************************************************************************)
\* logging.INFO, the level configure_logger gives the loggers.
LOG_LEVEL == "INFO"

LevelNo(level) ==
    CASE level = "DEBUG" -> 10
      [] level = "INFO" -> 20
      [] level = "ERROR" -> 40

\* logger.debug / info / error called at source line `line` for the outcome of
\* task `src`: the record is emitted when its level is enabled.  group, url
\* and result are what the call passes (None where it passes none).
LogCall(src, line, level, group, url, result) ==
    IF LevelNo(level) >= LevelNo(LOG_LEVEL)
    THEN {[src |-> src, line |-> line, level |-> level, group |-> group,
           url |-> url, result |-> result]}
    ELSE {}

(***************************************************************************)
(* get_beta_status_text (main.py 29-65).                                   *)
(***************************************************************************)
\* Lines 46-62: the status extracted from a response body, or None.
Extract(body) ==
    IF ~body.marker THEN None
    ELSE IF body.parse /= "span" THEN None
    ELSE Strip(body.text)

\* Which of the paths of lines 46-62 a body takes.
BodyKind(body) ==
    IF ~body.marker THEN "nomarker"
    ELSE IF body.parse = "error" THEN "parse_error"
    ELSE IF body.parse = "nospan" THEN "nospan"
    ELSE "text"

\* Lines 78-84 without the test of line 79: every group gets its tasks.
RECURSIVE Targets_NoSkip(_)
Targets_NoSkip(cfg) ==
    IF cfg = <<>> THEN <<>>
    ELSE LET e == Head(cfg)
         IN [k \in 1..Len(e.urls) |-> <<e.group, e.urls[k]>>]
                \o Targets_NoSkip(Tail(cfg))

\* Lines 78-84: the (group, url) pairs that get a task, in creation order.
RECURSIVE Targets(_)
Targets(cfg) ==
    IF cfg = <<>> THEN <<>>
    ELSE LET e == Head(cfg)
             own == IF e.group = ExampleGroup THEN <<>>
                    ELSE [k \in 1..Len(e.urls) |-> <<e.group, e.urls[k]>>]
         IN own \o Targets(Tail(cfg))

TaskObj(i) == <<"task", i>>

\* asyncio.as_completed hands out a new coroutine object per iteration, never
\* one of the tasks it was given.
CoroObj(k) == <<"coro", k>>

Holding(i) == tasks[i].pc \in {"request", "backoff"}

Finished(i) == tasks[i].pc \in {"done", "raised"}

\* Line 41 with a delay that does not grow.
BackoffDelay_Constant(attempt) == 500

\* Line 41: 0.5 * (2 ** attempt) seconds, in milliseconds.
BackoffDelay(attempt) == 500 * (2 ^ attempt)

\* The error calls of get_beta_status_text: line 43 after the last attempt,
\* line 60 on a parser exception, line 64 in the outer handler.  Each message
\* holds the URL.
FetchLog(ts, i, why) ==
    CASE why = "exhausted" -> LogCall(i, 43, "ERROR", None, ts[i].url, None)
      [] why = "parse_error" -> LogCall(i, 60, "ERROR", None, ts[i].url, None)
      [] why = "unexpected" -> LogCall(i, 64, "ERROR", None, ts[i].url, None)
      [] OTHER -> {}

\* The part of the state the fetch tasks of a round work on.
FetchState ==
    [tasks |-> tasks, waiters |-> waiters, sem_value |-> sem_value,
     done_q |-> done_q, completed |-> completed, log |-> log]

SetFetchState(s) ==
    /\ tasks' = s.tasks
    /\ waiters' = s.waiters
    /\ sem_value' = s.sem_value
    /\ done_q' = s.done_q
    /\ completed' = s.completed
    /\ log' = s.log

\* The end of task i without sem.release(): the permit stays taken.
Finish_KeepsPermit(s, i, pc, result, why, http) ==
    [s EXCEPT !.tasks = [s.tasks EXCEPT ![i].pc = pc, ![i].result = result,
                                        ![i].why = why, ![i].http = http,
                                        ![i].attempt = 0],
              !.done_q = Append(s.done_q, i),
              !.completed = Append(s.completed, i),
              !.log = s.log \cup FetchLog(s.tasks, i, why)]

\* sem.release() where the waiter is not woken: the counter goes up and the
\* queued task stays queued.
Finish_NoHandOff(s, i, pc, result, why, http) ==
    [s EXCEPT !.tasks = [s.tasks EXCEPT ![i].pc = pc, ![i].result = result,
                                        ![i].why = why, ![i].http = http,
                                        ![i].attempt = 0],
              !.sem_value = s.sem_value + 1,
              !.done_q = Append(s.done_q, i),
              !.completed = Append(s.completed, i),
              !.log = s.log \cup FetchLog(s.tasks, i, why)]

\* Task i ends (return or exception) after a response with status `http` (""
\* when it got none): its error record, if any, is logged; `async with sem`
\* releases (asyncio.Semaphore): the permit goes to the first waiter, which
\* then issues its first request; with no waiter the counter goes up.  The
\* finished task is queued for as_completed; the coroutine's locals (attempt)
\* are gone with it.
Finish(s, i, pc, result, why, http) ==
    LET fin == [s.tasks EXCEPT ![i].pc = pc, ![i].result = result,
                               ![i].why = why, ![i].http = http,
                               ![i].attempt = 0]
    IN [s EXCEPT !.tasks = IF s.waiters /= <<>>
                           THEN [fin EXCEPT ![Head(s.waiters)].pc = "request"]
                           ELSE fin,
                 !.waiters = IF s.waiters /= <<>> THEN Tail(s.waiters) ELSE <<>>,
                 !.sem_value = IF s.waiters /= <<>> THEN s.sem_value
                               ELSE s.sem_value + 1,
                 !.done_q = Append(s.done_q, i),
                 !.completed = Append(s.completed, i),
                 !.log = s.log \cup FetchLog(s.tasks, i, why)]

FinishTask(i, pc, result, why, http) ==
    SetFetchState(Finish(FetchState, i, pc, result, why, http))

\* Line 30 with a semaphore of the task's own: nothing is shared, no task waits.
TaskStart_Ungated(i) ==
    /\ pc_main = "fetch"
    /\ tasks[i].pc = "created"
    /\ \A j \in 1..(i - 1) : tasks[j].pc /= "created"
    /\ tasks' = [tasks EXCEPT ![i].pc = "request"]
    /\ UNCHANGED << inputs, loopVars, prev, clock, notifyVars, dec, pc_main, loop_count,
                    task_map, sem_value, waiters, done_q, n_consumed,
                    notify_results, seen, line_src, dispatched, log, completed >>

\* Line 30, the task's first run: tasks start in creation order; sem.acquire()
\* takes a permit when one is free and nobody is queued, and the first request
\* is issued (line 36); else the task queues.
TaskStart(i) ==
    /\ pc_main = "fetch"
    /\ tasks[i].pc = "created"
    /\ \A j \in 1..(i - 1) : tasks[j].pc /= "created"
    /\ IF sem_value > 0 /\ waiters = <<>>
       THEN /\ sem_value' = sem_value - 1
            /\ tasks' = [tasks EXCEPT ![i].pc = "request"]
            /\ waiters' = waiters
       ELSE /\ sem_value' = sem_value
            /\ tasks' = [tasks EXCEPT ![i].pc = "waiting"]
            /\ waiters' = Append(waiters, i)
    /\ UNCHANGED << inputs, loopVars, prev, clock, notifyVars, dec, pc_main, loop_count,
                    task_map, done_q, n_consumed, notify_results, seen,
                    line_src, dispatched, log, completed >>

AllStarted == \A j \in DOMAIN tasks : tasks[j].pc /= "created"

\* The answers a fetch request meets here: every body with status 200, and a
\* page without the marker with status 500.
Responses ==
    {[status |-> "200", body |-> b] : b \in Bodies}
    \cup {[status |-> "500",
           body |-> [marker |-> FALSE, parse |-> "span", text |-> <<>>]]}

\* Lines 36-38 and 46-62 where a parser exception sends the task back to the
\* retry loop instead of returning None.
RequestResponse_RetriesParseError(i) ==
    /\ pc_main = "fetch" /\ AllStarted
    /\ tasks[i].pc = "request"
    /\ \E r \in Responses :
          IF BodyKind(r.body) = "parse_error" /\ tasks[i].attempt + 1 < MaxAttempts
          THEN /\ tasks' = [tasks EXCEPT ![i].attempt = tasks[i].attempt + 1]
               /\ UNCHANGED << sem_value, waiters, done_q, completed, log >>
          ELSE FinishTask(i, "done", Extract(r.body), BodyKind(r.body), r.status)
    /\ UNCHANGED << inputs, loopVars, prev, clock, notifyVars, dec, pc_main, loop_count,
                    task_map, n_consumed, notify_results, seen, line_src,
                    dispatched >>

\* Lines 36-38, 46-62: the request got the response r, whatever its HTTP
\* status; its body is read, the status text extracted and returned.
Respond(i, r) ==
    /\ pc_main = "fetch" /\ AllStarted
    /\ tasks[i].pc = "request"
    /\ FinishTask(i, "done", Extract(r.body), BodyKind(r.body), r.status)
    /\ UNCHANGED << inputs, loopVars, prev, clock, notifyVars, dec, pc_main, loop_count,
                    task_map, n_consumed, notify_results, seen, line_src,
                    dispatched >>

RequestResponse(i) == \E r \in Responses : Respond(i, r)

\* Lines 39-41 with the sleep outside `async with sem`: the permit is released
\* when the backoff starts and goes to the first waiter.
RequestFail_ReleasesDuringBackoff(i) ==
    /\ pc_main = "fetch" /\ AllStarted
    /\ tasks[i].pc = "request"
    /\ LET slept == [tasks EXCEPT ![i].pc = "backoff",
                                  ![i].delay = BackoffDelay(tasks[i].attempt)]
       IN IF waiters /= <<>>
          THEN /\ tasks' = [slept EXCEPT ![Head(waiters)].pc = "request"]
               /\ waiters' = Tail(waiters)
               /\ sem_value' = sem_value
          ELSE /\ tasks' = slept
               /\ waiters' = waiters
               /\ sem_value' = sem_value + 1
    /\ UNCHANGED << inputs, loopVars, prev, clock, notifyVars, dec, pc_main, loop_count,
                    task_map, done_q, n_consumed, notify_results, seen,
                    line_src, dispatched, log, completed >>

\* Lines 39-41: the request failed at network level; the backoff sleep starts.
RequestFail(i) ==
    /\ pc_main = "fetch" /\ AllStarted
    /\ tasks[i].pc = "request"
    /\ tasks' = [tasks EXCEPT ![i].pc = "backoff",
                              ![i].delay = BackoffDelay(tasks[i].attempt)]
    /\ UNCHANGED << inputs, loopVars, prev, clock, notifyVars, dec, pc_main, loop_count,
                    task_map, sem_value, waiters, done_q, n_consumed,
                    notify_results, seen, line_src, dispatched, log, completed >>

\* Lines 42-44 raising the last error instead of returning None.
BackoffDone_RaisesWhenExhausted(i) ==
    /\ pc_main = "fetch"
    /\ tasks[i].pc = "backoff"
    /\ IF tasks[i].attempt + 1 < MaxAttempts
       THEN /\ tasks' = [tasks EXCEPT ![i].pc = "request", ![i].delay = 0,
                                      ![i].attempt = tasks[i].attempt + 1]
            /\ UNCHANGED << sem_value, waiters, done_q, completed, log >>
       ELSE SetFetchState(Finish([FetchState EXCEPT !.tasks[i].delay = 0],
                                 i, "raised", None, "exhausted", ""))
    /\ UNCHANGED << inputs, loopVars, prev, clock, notifyVars, dec, pc_main, loop_count,
                    task_map, n_consumed, notify_results, seen, line_src,
                    dispatched >>

\* Line 34 as `while text is None`: after the last backoff the request is
\* issued again, without end.
BackoffDone_RetriesForever(i) ==
    /\ pc_main = "fetch"
    /\ tasks[i].pc = "backoff"
    /\ tasks' = [tasks EXCEPT ![i].pc = "request", ![i].delay = 0,
                              ![i].attempt = IF tasks[i].attempt + 1 < MaxAttempts
                                             THEN tasks[i].attempt + 1
                                             ELSE tasks[i].attempt]
    /\ UNCHANGED << sem_value, waiters, done_q, completed, log >>
    /\ UNCHANGED << inputs, loopVars, prev, clock, notifyVars, dec, pc_main,
                    loop_count, task_map, n_consumed, notify_results, seen,
                    line_src, dispatched >>

\* Line 41 returns: the next attempt, or after the last one lines 42-44.
BackoffDone(i) ==
    /\ pc_main = "fetch"
    /\ tasks[i].pc = "backoff"
    /\ IF tasks[i].attempt + 1 < MaxAttempts
       THEN /\ tasks' = [tasks EXCEPT ![i].pc = "request", ![i].delay = 0,
                                      ![i].attempt = tasks[i].attempt + 1]
            /\ UNCHANGED << sem_value, waiters, done_q, completed, log >>
       ELSE SetFetchState(Finish([FetchState EXCEPT !.tasks[i].delay = 0],
                                 i, "done", None, "exhausted", ""))
    /\ UNCHANGED << inputs, loopVars, prev, clock, notifyVars, dec, pc_main, loop_count,
                    task_map, n_consumed, notify_results, seen, line_src,
                    dispatched >>

\* Lines 63-65 where the handler returns with the permit still taken.
UnexpectedError_KeepsPermit(i) ==
    /\ pc_main = "fetch" /\ AllStarted
    /\ tasks[i].pc = "request"
    /\ SetFetchState(Finish_KeepsPermit(FetchState, i, "done", None, "unexpected", ""))
    /\ UNCHANGED << inputs, loopVars, prev, clock, notifyVars, dec, pc_main, loop_count,
                    task_map, n_consumed, notify_results, seen, line_src,
                    dispatched >>

\* Lines 63-65: an exception raised while the response is handled, outside the
\* inner handlers, is logged and None returned.
UnexpectedError(i) ==
    /\ pc_main = "fetch" /\ AllStarted
    /\ tasks[i].pc = "request"
    /\ FinishTask(i, "done", None, "unexpected", "")
    /\ UNCHANGED << inputs, loopVars, prev, clock, notifyVars, dec, pc_main, loop_count,
                    task_map, n_consumed, notify_results, seen, line_src,
                    dispatched >>

\* An exception that leaves the coroutine (one raised inside the handler of
\* lines 63-65): `async with sem` releases, the task ends with the exception
\* set, which is what lines 89-92 of the round expect.
TaskRaise(i) ==
    /\ pc_main = "fetch" /\ AllStarted
    /\ tasks[i].pc = "request"
    /\ FinishTask(i, "raised", None, "raised", "")
    /\ UNCHANGED << inputs, loopVars, prev, clock, notifyVars, dec, pc_main, loop_count,
                    task_map, n_consumed, notify_results, seen, line_src,
                    dispatched >>

(***************************************************************************)
(* Notifier (notify.py): notify and the three send coroutines.             *)
(***************************************************************************)
NoCall == [title |-> <<>>, content |-> <<>>, platforms |-> {}]

\* platforms=None
AllPlatforms == {"<None>"}

NoOutcome == <<"pending">>

\* Lines 105, 108, 111 without `platforms is None or`: None asks for nothing.
Wants_ListedOnly(platforms, name) == name \in platforms

\* `platforms is None or name in platforms` (lines 105, 108, 111)
Wants(platforms, name) == platforms = AllPlatforms \/ name \in platforms

\* self.config.get(name, [])
ConfigGet(config, name) == IF name \in DOMAIN config THEN config[name] ELSE <<>>

NewSends(kind, confs) ==
    [k \in 1..Len(confs) |->
        [kind |-> kind, conf |-> confs[k], pc |-> "created",
         outcome |-> NoOutcome, io |-> <<>>]]

\* Lines 101-113: one coroutine per endpoint of each wanted platform, webhook
\* first, then wechat, then bark.
BuildSends(config, platforms) ==
    (IF Wants(platforms, "webhook")
     THEN NewSends("webhook", ConfigGet(config, "webhook")) ELSE <<>>)
    \o (IF Wants(platforms, "wechat")
        THEN NewSends("wechat", ConfigGet(config, "wechat")) ELSE <<>>)
    \o (IF Wants(platforms, "bark")
        THEN NewSends("bark", ConfigGet(config, "bark")) ELSE <<>>)

\* Line 115 of main.py without the await: notify is started and the round goes
\* on without it.
NotifyEnter_NotAwaited(title, content, platforms) ==
    /\ call' = [title |-> title, content |-> content, platforms |-> platforms]
    /\ sends' = BuildSends(NOFITY_CONFIG, platforms)
    /\ results' = <<>>
    /\ pc_main' = "check"

\* notify is entered (lines 97-114, up to the gather).
NotifyEnter(title, content, platforms) ==
    /\ call' = [title |-> title, content |-> content, platforms |-> platforms]
    /\ sends' = BuildSends(NOFITY_CONFIG, platforms)
    /\ results' = <<>>
    /\ pc_main' = "notify"

SendDone(k, outcome, event) ==
    sends' = [sends EXCEPT ![k].pc = "done", ![k].outcome = outcome,
                           ![k].io = Append(sends[k].io, event)]

SendStep(k, pc, event) ==
    sends' = [sends EXCEPT ![k].pc = pc, ![k].io = Append(sends[k].io, event)]

\* The coroutines gather wrapped start in list order; each runs to its first
\* request: send_webhook line 48; send_bark lines 82-89, where decoding a
\* base64 URL is outside the try; send_wechat lines 57-63.
SendStart(k) ==
    /\ pc_main = "notify"
    /\ sends[k].pc = "created"
    /\ \A j \in 1..(k - 1) : sends[j].pc /= "created"
    /\ LET conf == sends[k].conf
       IN CASE sends[k].kind = "webhook" -> SendStep(k, "post", <<"POST", "webhook">>)
            [] sends[k].kind = "bark" ->
                 IF conf.form = "broken"
                 THEN SendDone(k, <<"exception", "binascii.Error">>, <<"b64decode", "raised">>)
                 ELSE SendStep(k, "get", <<"GET", "bark">>)
            [] sends[k].kind = "wechat" ->
                 IF "secret_enc" \notin DOMAIN conf
                 THEN SendDone(k, <<"failed", "no secret_enc">>, <<"config", "no secret_enc">>)
                 ELSE LET secret == DecryptSecret(aes_key, conf.secret_enc)
                      IN IF ~secret.ok
                         THEN SendDone(k, <<"failed", secret.value>>, <<"decrypt", "raised">>)
                         ELSE sends' = [sends EXCEPT
                                  ![k].pc = "token",
                                  ![k].io = sends[k].io \o << <<"decrypt", "ok">>,
                                                              <<"GET", "token">> >>]
    /\ UNCHANGED << inputs, loopVars, prev, clock, log, completed, dec, pc_main, loop_count, tasks, task_map, sem_value,
                    waiters, done_q, n_consumed, notify_results, seen, line_src,
                    dispatched, call, results >>

AllSendsStarted == \A j \in DOMAIN sends : sends[j].pc /= "created"

\* send_webhook lines 48-54 with a status check: only a 200 response is returned,
\* any other is a failure.
SendWebhook_FailsOnErrorStatus(k) ==
    /\ pc_main = "notify" /\ AllSendsStarted
    /\ sends[k].kind = "webhook" /\ sends[k].pc = "post"
    /\ \/ SendDone(k, <<"resp", "200">>, <<"response", "200">>)
       \/ SendDone(k, <<"failed", "Webhook">>, <<"response", "500">>)
       \/ SendDone(k, <<"failed", "Webhook">>, <<"response", "error">>)
    /\ UNCHANGED << inputs, loopVars, prev, clock, log, completed, dec, pc_main, loop_count,
                    tasks, task_map, sem_value, waiters, done_q, n_consumed,
                    notify_results, seen, line_src, dispatched, call, results >>

\* send_webhook lines 48-54: the POST ends.
SendWebhook(k) ==
    /\ pc_main = "notify" /\ AllSendsStarted
    /\ sends[k].kind = "webhook" /\ sends[k].pc = "post"
    /\ \/ \E st \in HttpStatuses : SendDone(k, <<"resp", st>>, <<"response", st>>)
       \/ SendDone(k, <<"failed", "Webhook">>, <<"response", "error">>)
    /\ UNCHANGED << inputs, loopVars, prev, clock, log, completed, dec, pc_main, loop_count, tasks, task_map, sem_value,
                    waiters, done_q, n_consumed, notify_results, seen, line_src,
                    dispatched, call, results >>

\* send_bark lines 89-95: the GET ends.
SendBark(k) ==
    /\ pc_main = "notify" /\ AllSendsStarted
    /\ sends[k].kind = "bark" /\ sends[k].pc = "get"
    /\ \/ \E st \in HttpStatuses : SendDone(k, <<"resp", st>>, <<"response", st>>)
       \/ SendDone(k, <<"failed", "Bark">>, <<"response", "error">>)
    /\ UNCHANGED << inputs, loopVars, prev, clock, log, completed, dec, pc_main, loop_count, tasks, task_map, sem_value,
                    waiters, done_q, n_consumed, notify_results, seen, line_src,
                    dispatched, call, results >>

\* send_wechat lines 63-73 where an answer without access_token does not stop
\* the send: the message POST is issued all the same.
SendWechatToken_PostsWithoutToken(k) ==
    /\ pc_main = "notify" /\ AllSendsStarted
    /\ sends[k].kind = "wechat" /\ sends[k].pc = "token"
    /\ \/ sends' = [sends EXCEPT
                       ![k].pc = "post",
                       ![k].io = sends[k].io \o << <<"response", "token">>,
                                                   <<"POST", "message">> >>]
       \/ sends' = [sends EXCEPT
                       ![k].pc = "post",
                       ![k].io = sends[k].io \o << <<"response", "no token">>,
                                                   <<"POST", "message">> >>]
       \/ SendDone(k, <<"failed", "WeChat">>, <<"response", "error">>)
    /\ UNCHANGED << inputs, loopVars, prev, clock, log, completed, dec, pc_main, loop_count,
                    tasks, task_map, sem_value, waiters, done_q, n_consumed,
                    notify_results, seen, line_src, dispatched, call, results >>

\* send_wechat lines 63-73: the token GET ends; with an access_token in the
\* answer the message POST is issued.
SendWechatToken(k) ==
    /\ pc_main = "notify" /\ AllSendsStarted
    /\ sends[k].kind = "wechat" /\ sends[k].pc = "token"
    /\ \/ sends' = [sends EXCEPT
                       ![k].pc = "post",
                       ![k].io = sends[k].io \o << <<"response", "token">>,
                                                   <<"POST", "message">> >>]
       \/ SendDone(k, <<"failed", "KeyError">>, <<"response", "no token">>)
       \/ SendDone(k, <<"failed", "WeChat">>, <<"response", "error">>)
    /\ UNCHANGED << inputs, loopVars, prev, clock, log, completed, dec, pc_main, loop_count, tasks, task_map, sem_value,
                    waiters, done_q, n_consumed, notify_results, seen, line_src,
                    dispatched, call, results >>

\* send_wechat lines 73-79: the message POST ends.
SendWechatPost(k) ==
    /\ pc_main = "notify" /\ AllSendsStarted
    /\ sends[k].kind = "wechat" /\ sends[k].pc = "post"
    /\ \/ \E st \in HttpStatuses : SendDone(k, <<"resp", st>>, <<"response", st>>)
       \/ SendDone(k, <<"failed", "WeChat">>, <<"response", "error">>)
    /\ UNCHANGED << inputs, loopVars, prev, clock, log, completed, dec, pc_main, loop_count, tasks, task_map, sem_value,
                    waiters, done_q, n_consumed, notify_results, seen, line_src,
                    dispatched, call, results >>

\* gather without return_exceptions=True: the first exception leaves notify and
\* no list is returned.
GatherResults_ExceptionPropagates(sent) ==
    IF \E k \in 1..Len(sent) : sent[k].outcome[1] = "exception"
    THEN <<>>
    ELSE [k \in 1..Len(sent) |-> sent[k].outcome]

\* gather(*tasks, return_exceptions=True) (line 114): what it returns once
\* every send has ended, one entry per send in list order.
GatherResults(sent) == [k \in 1..Len(sent) |-> sent[k].outcome]

\* Lines 114-120: gather returns, the results are logged and returned; in a
\* round main.py line 116 follows.
NotifyReturn ==
    /\ pc_main = "notify"
    /\ \A k \in DOMAIN sends : sends[k].pc = "done"
    /\ results' = GatherResults(sends)
    /\ pc_main' = IF loop_count > 0 THEN "check" ELSE "exit"
    /\ UNCHANGED << inputs, loopVars, prev, clock, log, completed, dec, loop_count, tasks, task_map, sem_value, waiters,
                    done_q, n_consumed, notify_results, seen, line_src,
                    dispatched, call, sends >>

\* A caller other than the round (notify.py line 138) calls notify.
DirectNotify ==
    /\ pc_main = "direct"
    /\ NotifyEnter(call.title, call.content, call.platforms)
    /\ UNCHANGED << inputs, loopVars, prev, clock, log, completed, dec, loop_count, tasks, task_map, sem_value, waiters,
                    done_q, n_consumed, notify_results, seen, line_src,
                    dispatched >>

\* decrypt_secret has not returned yet.
PendingDec == [ok |-> FALSE, value |-> "pending"]

\* A call of decrypt_secret on its own.
DecryptCall ==
    /\ pc_main = "decrypt"
    /\ dec.out = PendingDec
    /\ dec' = [dec EXCEPT !.out = DecryptSecret(aes_key, dec.secret_enc)]
    /\ pc_main' = "exit"
    /\ UNCHANGED << inputs, loopVars, prev, clock, log, completed, loop_count, tasks, task_map, sem_value, waiters,
                    done_q, n_consumed, notify_results, seen, line_src,
                    dispatched, call, sends, results >>

(***************************************************************************)
(* check_and_notify (main.py 67-119) and main (121-148).                   *)
(***************************************************************************)
\* dict.get of line 93
TaskMapGet(t) == IF t \in DOMAIN task_map THEN task_map[t] ELSE None

\* The f-string of line 107.
FormatLine(group, url, result) == group \o <<" ", "-", " ">> \o url \o <<":", " ">> \o result

\* `if result:` (line 98): None and the empty string are falsy.
\* Line 98 as `if result is not None`: the empty text passes.
Truthy_NotNone(result) == result /= None

Truthy(result) == result /= None /\ result /= <<>>

\* Line 100 without .lower(): the sentinel is matched in lower case only.
IsFull_CaseSensitive(result) == Contains(Sentinel, result)

\* Line 100
IsFull(result) == Contains(Sentinel, Lower(result))

\* Line 105
DedupKey(group, url, result) == <<group, url, Lower(result)>>

\* What a round leaves for the history: the (group, url, status) keys of its
\* findings with a present status without the sentinel, those among them whose
\* task made a line, and the number of notify calls.
RoundSummary ==
    [keys |-> {<<task_map[TaskObj(i)][1], task_map[TaskObj(i)][2],
                 Lower(tasks[i].result)>> :
                  i \in {j \in DOMAIN tasks :
                            /\ tasks[j].pc = "done"
                            /\ tasks[j].result /= None
                            /\ tasks[j].result /= <<>>
                            /\ ~Contains(Sentinel, Lower(tasks[j].result))}},
     lined |-> {<<task_map[TaskObj(line_src[k])][1], task_map[TaskObj(line_src[k])][2],
                  Lower(tasks[line_src[k]].result)>> : k \in DOMAIN line_src},
     dispatches |-> Len(dispatched)]

NoSummary == [keys |-> {}, lined |-> {}, dispatches |-> 0]

\* Lines 122-129, 67-87: the next round starts; one task per URL of every group
\* but exampleGroup, the round's semaphore, an empty result list and seen set.
StartRound ==
    /\ pc_main = "start"
    /\ LET targets == Targets(TESTFLIGHT_URLS)
       IN /\ tasks' = [k \in 1..Len(targets) |->
                          [pc |-> "created", url |-> targets[k][2], attempt |-> 0,
                           result |-> None, why |-> "pending", delay |-> 0,
                           http |-> ""]]
          /\ task_map' = [t \in {TaskObj(k) : k \in 1..Len(targets)} |-> targets[t[2]]]
    /\ loop_count' = loop_count + 1
    /\ sem_value' = CONCURRENCY_LIMIT
    /\ waiters' = <<>>
    /\ done_q' = <<>>
    /\ n_consumed' = 0
    /\ notify_results' = <<>>
    /\ seen' = {}
    /\ line_src' = <<>>
    /\ dispatched' = <<>>
    /\ pc_main' = "fetch"
    /\ call' = NoCall
    /\ sends' = <<>>
    /\ results' = <<>>
    /\ log' = {}
    /\ completed' = <<>>
    /\ clock' = 0
    /\ UNCHANGED << inputs, loopVars, dec, prev >>

\* Lines 98-103: the record of a consumed result: none for a falsy result, a
\* debug call for a status with the sentinel, an info call for any other.
ConsumeLog(i, group, url, result) ==
    IF ~Truthy(result) THEN {}
    ELSE IF IsFull(result) THEN LogCall(i, 101, "DEBUG", group, url, result)
    ELSE LogCall(i, 103, "INFO", group, url, result)

\* Lines 88-108 going through the tasks in the order of the list instead of
\* as_completed: of the ended tasks not handed out yet, the one created first
\* comes next.
Consume_SubmissionOrder ==
    /\ pc_main = "fetch"
    /\ done_q /= <<>>
    /\ LET i == CHOOSE j \in Range(done_q) : \A m \in Range(done_q) : j <= m
           t == CoroObj(n_consumed + 1)
           result == tasks[i].result
           task_result == TaskMapGet(t)
           group == IF task_result /= None THEN task_result[1] ELSE <<>>
           url == IF task_result /= None THEN task_result[2] ELSE <<>>
           key == DedupKey(group, url, result)
       IN /\ IF tasks[i].pc /= "raised" /\ Truthy(result) /\ ~IsFull(result)
                /\ key \notin seen
             THEN /\ notify_results' = Append(notify_results, FormatLine(group, url, result))
                  /\ seen' = seen \cup {key}
                  /\ line_src' = Append(line_src, i)
             ELSE UNCHANGED << notify_results, seen, line_src >>
          /\ log' = IF tasks[i].pc = "raised" THEN log
                    ELSE log \cup ConsumeLog(i, group, url, result)
          /\ done_q' = SelectSeq(done_q, LAMBDA j : j /= i)
    /\ n_consumed' = n_consumed + 1
    /\ UNCHANGED << inputs, loopVars, prev, clock, completed, notifyVars, dec, pc_main,
                    loop_count, tasks, task_map, sem_value, waiters, dispatched >>

\* Lines 88-108: one iteration of the as_completed loop, on the task that
\* finished first among those not handed out yet.
Consume ==
    /\ pc_main = "fetch"
    /\ done_q /= <<>>
    /\ LET i == Head(done_q)
           t == CoroObj(n_consumed + 1)
           result == tasks[i].result
           task_result == TaskMapGet(t)
           group == IF task_result /= None THEN task_result[1] ELSE <<>>
           url == IF task_result /= None THEN task_result[2] ELSE <<>>
           key == DedupKey(group, url, result)
       IN /\ IF tasks[i].pc /= "raised" /\ Truthy(result) /\ ~IsFull(result)
                /\ key \notin seen
             THEN /\ notify_results' = Append(notify_results, FormatLine(group, url, result))
                  /\ seen' = seen \cup {key}
                  /\ line_src' = Append(line_src, i)
             ELSE UNCHANGED << notify_results, seen, line_src >>
          /\ log' = IF tasks[i].pc = "raised" THEN log
                    ELSE log \cup ConsumeLog(i, group, url, result)
    /\ done_q' = Tail(done_q)
    /\ n_consumed' = n_consumed + 1
    /\ UNCHANGED << inputs, loopVars, prev, clock, completed, notifyVars, dec, pc_main,
                    loop_count, tasks, task_map, sem_value, waiters, dispatched >>

\* Lines 88-115 leaving the loop at the first line: notify is called while
\* tasks are still running.
EndFetch_FirstFinding ==
    /\ pc_main = "fetch"
    /\ AllStarted
    /\ IF notify_results /= <<>>
       THEN /\ NotifyEnter(Title, Join(notify_results), {"bark"})
            /\ dispatched' = Append(dispatched,
                  [title |-> Title, content |-> Join(notify_results),
                   platforms |-> {"bark"}])
       ELSE /\ n_consumed = Len(tasks)
            /\ pc_main' = "check"
            /\ UNCHANGED << notifyVars, dispatched >>
    /\ UNCHANGED << inputs, loopVars, prev, clock, log, completed, dec, loop_count, tasks,
                    task_map, sem_value, waiters, done_q, n_consumed,
                    notify_results, seen, line_src >>

\* Lines 110-115 without the test of line 111: notify is called every round.
EndFetch_AlwaysNotifies ==
    /\ pc_main = "fetch"
    /\ AllStarted
    /\ n_consumed = Len(tasks)
    /\ NotifyEnter(Title, Join(notify_results), {"bark"})
    /\ dispatched' = Append(dispatched,
          [title |-> Title, content |-> Join(notify_results),
           platforms |-> {"bark"}])
    /\ UNCHANGED << inputs, loopVars, prev, clock, log, completed, dec, loop_count, tasks, task_map, sem_value,
                    waiters, done_q, n_consumed, notify_results, seen, line_src >>

\* Lines 110-115 with notify called without platforms: every channel is asked.
EndFetch_AllPlatforms ==
    /\ pc_main = "fetch"
    /\ AllStarted
    /\ n_consumed = Len(tasks)
    /\ IF notify_results /= <<>>
       THEN /\ NotifyEnter(Title, Join(notify_results), AllPlatforms)
            /\ dispatched' = Append(dispatched,
                  [title |-> Title, content |-> Join(notify_results),
                   platforms |-> AllPlatforms])
       ELSE /\ pc_main' = "check"
            /\ UNCHANGED << notifyVars, dispatched >>
    /\ UNCHANGED << inputs, loopVars, prev, clock, log, completed, dec, loop_count, tasks,
                    task_map, sem_value, waiters, done_q, n_consumed,
                    notify_results, seen, line_src >>

\* Lines 110-115: the loop is over; with a line to send a Notifier is made and
\* notify called for bark, else the round is over (lines 118-119).
EndFetch ==
    /\ pc_main = "fetch"
    /\ AllStarted
    /\ n_consumed = Len(tasks)
    /\ IF notify_results /= <<>>
       THEN /\ NotifyEnter(Title, Join(notify_results), {"bark"})
            /\ dispatched' = Append(dispatched,
                  [title |-> Title, content |-> Join(notify_results),
                   platforms |-> {"bark"}])
       ELSE /\ pc_main' = "check"
            /\ UNCHANGED << notifyVars, dispatched >>
    /\ UNCHANGED << inputs, loopVars, prev, clock, log, completed, dec, loop_count, tasks, task_map, sem_value,
                    waiters, done_q, n_consumed, notify_results, seen, line_src >>

\* Line 132 with `>` for `>=`: the loop goes on when the elapsed time equals
\* the budget.
BudgetSpent_Strict(duration, now) == duration > 0 /\ now > duration

\* Line 132: `LOOP_DURATION > 0 and (time.time() - start_time) >= LOOP_DURATION`.
BudgetSpent(duration, now) == duration > 0 /\ now >= duration

\* What time.time() - start_time may be at a duration check: around the
\* budget, and no less than at the check before.
Readings(duration, last) ==
    {now \in {duration - 1, duration, duration + 1} : now >= 0 /\ now >= last}

\* Lines 131-134 and 148: check_and_notify has returned, its tasks, semaphore,
\* result list and seen set are gone with it (the history keeps a summary).
\* In loop mode the duration check follows and the loop is left or the wait
\* begins; in single-shot mode main returns.
DurationCheck ==
    /\ pc_main = "check"
    /\ IF enable_loop
       THEN \E now \in Readings(loop_duration, elapsed) :
               /\ elapsed' = now
               /\ n_checks' = n_checks + 1
               /\ pc_main' = IF BudgetSpent(loop_duration, now)
                             THEN "exit" ELSE "wait"
       ELSE /\ pc_main' = "exit"
            /\ UNCHANGED loopVars
    /\ prev' = RoundSummary
    /\ tasks' = <<>>
    /\ task_map' = <<>>
    /\ sem_value' = CONCURRENCY_LIMIT
    /\ waiters' = <<>>
    /\ done_q' = <<>>
    /\ n_consumed' = 0
    /\ notify_results' = <<>>
    /\ seen' = {}
    /\ line_src' = <<>>
    /\ dispatched' = <<>>
    /\ call' = NoCall
    /\ sends' = <<>>
    /\ results' = <<>>
    /\ log' = {}
    /\ completed' = <<>>
    /\ clock' = 0
    /\ UNCHANGED << inputs, dec, loop_count >>

\* Lines 136-145: the inter-round wait is over.
WaitDone ==
    /\ pc_main = "wait"
    /\ loop_count < MaxRounds
    /\ pc_main' = "start"
    /\ UNCHANGED << inputs, loopVars, prev, clock, log, completed, notifyVars, dec, loop_count, tasks, task_map, sem_value,
                    waiters, done_q, n_consumed, notify_results, seen,
                    line_src, dispatched >>

(***************************************************************************)
(* Rounds under a clock: every fetch takes one time unit and gets a        *)
(* response.                                                               *)
(***************************************************************************)
\* The configurations of the timed rounds have up to this many URLs.
MaxFetches == 10

Digits == <<"0", "1", "2", "3", "4", "5", "6", "7", "8", "9">>

\* str(k) for k below 100.
Decimal(k) ==
    IF k < 10 THEN <<Digits[k + 1]>>
    ELSE <<Digits[(k \div 10) + 1], Digits[(k % 10) + 1]>>

UrlNo(k) == <<"h", "t", "t", "p", ":", "/", "/", "u">> \o Decimal(k)

\* One group with n distinct URLs, n up to MaxFetches.
TimedConfigs ==
    { << [group |-> GroupBeta, urls |-> [k \in 1..n |-> UrlNo(k)]] >> :
         n \in 1..MaxFetches }

\* What the fetches of a timed round are answered.
TimedResponses == {[status |-> "200", body |-> Page(TextOpen)]}

\* The orders in which the tasks of a set may end.
Orders(S) ==
    {o \in [1..Cardinality(S) -> S] :
        \A a, b \in 1..Cardinality(S) : a /= b => o[a] /= o[b]}

\* The tasks of `order` end one after the other, each with its response.
RECURSIVE EndAll(_, _, _)
EndAll(s, order, resp) ==
    IF order = <<>> THEN s
    ELSE LET i == Head(order)
         IN EndAll(Finish(s, i, "done", Extract(resp[i].body),
                          BodyKind(resp[i].body), resp[i].status),
                   Tail(order), resp)

\* A time unit passes: every request in flight at its start gets its response
\* (lines 36-38, 46-62), in some order; the tasks a release wakes issue their
\* requests, which take the next unit.
Tick ==
    /\ pc_main = "fetch" /\ AllStarted
    /\ LET flying == {i \in DOMAIN tasks : tasks[i].pc = "request"}
       IN /\ flying /= {}
          /\ \E order \in Orders(flying), resp \in [flying -> TimedResponses] :
                SetFetchState(EndAll(FetchState, order, resp))
    /\ clock' = clock + 1
    /\ UNCHANGED << inputs, loopVars, prev, notifyVars, dec, pc_main, loop_count, task_map,
                    n_consumed, notify_results, seen, line_src, dispatched >>

(***************************************************************************)
(* Inputs of the Notifier and of decrypt_secret.                           *)
(***************************************************************************)
\* Plaintexts up to this length are encrypted.
MaxPlainLen == 17

Key16 == [j \in 1..16 |-> 48 + j]

Key16Other == [j \in 1..16 |-> 96 + j]

Key24 == [j \in 1..24 |-> 64 + j]

Key32 == [j \in 1..32 |-> 32 + j]

\* Five characters: no AES key size.
KeyShort == <<107, 101, 121, 53, 33>>

\* Sixteen characters, seventeen bytes once encoded.
Key16Chars == [j \in 1..16 |-> IF j = 16 THEN 233 ELSE 48 + j]

ValidKeys == {Key16, Key24, Key32}

\* The plaintext of length n ending in code point `last`.
PlainOf(n, last) == [j \in 1..n |-> IF j = n THEN last ELSE 97 + (j % 3)]

Plaintexts ==
    {<<>>} \cup {PlainOf(n, last) : n \in 1..MaxPlainLen, last \in {0, 1, 16, 65, 233}}

\* Decrypted data that no PKCS padding produced: `blocks` blocks whose last
\* byte is `last`.
RawOf(blocks, last) ==
    [j \in 1..(blocks * BlockSize) |-> IF j = blocks * BlockSize THEN last ELSE 66]

RawData ==
    {RawOf(b, last) : b \in 1..2, last \in {0, 17, 32, 33, 255}}
    \cup {<<>>, <<1, 2, 3>>}

\* The secret_enc texts tried, each with where it comes from.
DecInputs ==
    {[secret_enc |-> EncryptSecret(k, p), kind |-> "padded", key |-> k, data |-> p,
      out |-> PendingDec] : k \in ValidKeys, p \in Plaintexts}
    \cup {[secret_enc |-> B64Encode(EcbEncrypt(Key16, r)), kind |-> "raw",
           key |-> Key16, data |-> r, out |-> PendingDec]
            : r \in {x \in RawData : Len(x) % BlockSize = 0}}
    \cup {[secret_enc |-> B64Encode(r), kind |-> "raw", key |-> Key16, data |-> r,
           out |-> PendingDec] : r \in {x \in RawData : Len(x) % BlockSize /= 0}}
    \cup {[secret_enc |-> <<16, 16, 64>>, kind |-> "raw", key |-> Key16,
           data |-> <<>>, out |-> PendingDec]}

NoDec == [secret_enc |-> <<>>, kind |-> "none", key |-> NoKey, data |-> <<>>,
          out |-> PendingDec]

SecretText == <<115, 51, 99, 114, 51, 116>>

WechatOk ==
    [corp_id |-> "corp1", agent_id |-> "1000002", to_user |-> "@all",
     secret_enc |-> EncryptSecret(Key16, SecretText)]

WechatOtherKey ==
    [corp_id |-> "corp2", agent_id |-> "1000002", to_user |-> "@all",
     secret_enc |-> EncryptSecret(Key32, SecretText)]

WechatNoSecret == [corp_id |-> "corp3", agent_id |-> "1000002", to_user |-> "@all"]

HookA == [url |-> "https://hook.example/a"]

HookB == [url |-> "https://hook.example/b"]

BarkPlain == [url |-> "https://api.day.app/key1", form |-> "plain"]

\* Starts with aHR0 and decodes to a URL.
BarkEncoded == [url |-> "aHR0cHM6Ly9hcGkuZGF5LmFwcC9rZXky", form |-> "encoded"]

\* Starts with aHR0 and is no base64 text.
BarkBroken == [url |-> "aHR0c", form |-> "broken"]

\* The configuration of the rounds.
RoundNotifyConfigs ==
    { [webhook |-> <<HookA>>, wechat |-> <<WechatOk>>, bark |-> <<BarkPlain>>] }

\* The configurations of the lone notify calls.
NotifyConfigs ==
    { [webhook |-> <<HookA>>, wechat |-> <<WechatOk>>,
       bark |-> <<BarkPlain, BarkEncoded>>],
      [webhook |-> <<HookA, HookB>>, wechat |-> <<WechatOtherKey, WechatNoSecret>>],
      [wechat |-> <<WechatOk>>, bark |-> <<BarkBroken, BarkPlain>>],
      [bark |-> <<BarkPlain>>] }

PlatformChoices == {AllPlatforms} \cup SUBSET {"webhook", "wechat", "bark"}

(***************************************************************************)
(* Specifications.                                                         *)
(***************************************************************************)
NoRound ==
    /\ loop_count = 0
    /\ tasks = <<>>
    /\ task_map = <<>>
    /\ sem_value = CONCURRENCY_LIMIT
    /\ waiters = <<>>
    /\ done_q = <<>>
    /\ n_consumed = 0
    /\ notify_results = <<>>
    /\ seen = {}
    /\ line_src = <<>>
    /\ dispatched = <<>>
    /\ log = {}
    /\ completed = <<>>
    /\ prev = NoSummary
    /\ clock = 0
    /\ elapsed = 0
    /\ n_checks = 0

\* main(): the program before its first round.
Init ==
    /\ TESTFLIGHT_URLS \in Configs
    /\ NOFITY_CONFIG \in RoundNotifyConfigs
    /\ aes_key = NotifierKey(Key16, NoKey)
    /\ pc_main = "start"
    /\ enable_loop = ENABLE_LOOP
    /\ loop_duration = LOOP_DURATION
    /\ NoRound
    /\ call = NoCall
    /\ sends = <<>>
    /\ results = <<>>
    /\ dec = NoDec

Next ==
    \/ StartRound
    \/ \E i \in DOMAIN tasks : TaskStart(i)
    \/ \E i \in DOMAIN tasks : RequestResponse(i)
    \/ \E i \in DOMAIN tasks : RequestFail(i)
    \/ \E i \in DOMAIN tasks : BackoffDone(i)
    \/ \E i \in DOMAIN tasks : UnexpectedError(i)
    \/ \E i \in DOMAIN tasks : TaskRaise(i)
    \/ Consume
    \/ EndFetch
    \/ \E k \in DOMAIN sends : SendStart(k)
    \/ \E k \in DOMAIN sends : SendBark(k)
    \/ NotifyReturn
    \/ DurationCheck
    \/ WaitDone

Spec == Init /\ [][Next]_vars

\* A Notifier on its own, about to be asked to notify.
InitNotify ==
    /\ TESTFLIGHT_URLS = <<>>
    /\ NOFITY_CONFIG \in NotifyConfigs
    /\ \E arg \in {NoKey, Key16, KeyShort}, env \in {NoKey, Key16} :
          aes_key = NotifierKey(arg, env)
    /\ pc_main = "direct"
    /\ enable_loop = ENABLE_LOOP
    /\ loop_duration = LOOP_DURATION
    /\ NoRound
    /\ \E pl \in PlatformChoices :
          call = [title |-> Title, content |-> TextOpen, platforms |-> pl]
    /\ sends = <<>>
    /\ results = <<>>
    /\ dec = NoDec

NextNotify ==
    \/ DirectNotify
    \/ \E k \in DOMAIN sends : SendStart(k)
    \/ \E k \in DOMAIN sends : SendWebhook(k)
    \/ \E k \in DOMAIN sends : SendBark(k)
    \/ \E k \in DOMAIN sends : SendWechatToken(k)
    \/ \E k \in DOMAIN sends : SendWechatPost(k)
    \/ NotifyReturn

SpecNotify == InitNotify /\ [][NextNotify]_vars

\* A Notifier on its own, about to decrypt one secret_enc.
InitDecrypt ==
    /\ TESTFLIGHT_URLS = <<>>
    /\ NOFITY_CONFIG \in RoundNotifyConfigs
    /\ \E arg \in {NoKey, <<>>, KeyShort, Key16Chars, Key16, Key16Other, Key24, Key32},
          env \in {NoKey, Key16} :
          aes_key = NotifierKey(arg, env)
    /\ pc_main = "decrypt"
    /\ enable_loop = ENABLE_LOOP
    /\ loop_duration = LOOP_DURATION
    /\ NoRound
    /\ call = NoCall
    /\ sends = <<>>
    /\ results = <<>>
    /\ dec \in DecInputs

NextDecrypt == DecryptCall

SpecDecrypt == InitDecrypt /\ [][NextDecrypt]_vars

\* main() before a round in which every fetch takes one time unit.
InitTimed ==
    /\ TESTFLIGHT_URLS \in TimedConfigs
    /\ NOFITY_CONFIG \in RoundNotifyConfigs
    /\ aes_key = NotifierKey(Key16, NoKey)
    /\ pc_main = "start"
    /\ enable_loop = ENABLE_LOOP
    /\ loop_duration = LOOP_DURATION
    /\ NoRound
    /\ call = NoCall
    /\ sends = <<>>
    /\ results = <<>>
    /\ dec = NoDec

NextTimed ==
    \/ StartRound
    \/ \E i \in DOMAIN tasks : TaskStart(i)
    \/ Tick
    \/ Consume
    \/ EndFetch
    \/ \E k \in DOMAIN sends : SendStart(k)
    \/ \E k \in DOMAIN sends : SendBark(k)
    \/ NotifyReturn
    \/ DurationCheck

SpecTimed == InitTimed /\ [][NextTimed]_vars

\* Three Targets under two permits, and servers that answer with one of two
\* statuses without the sentinel or with the sentinel.
OrderConfigs ==
    { << [group |-> GroupBeta, urls |-> <<UrlA, UrlB>>],
         [group |-> GroupBetaCap, urls |-> <<UrlB>>] >> }

OrderResponses ==
    {[status |-> "200", body |-> Page(t)] : t \in {TextOpen, TextClosed, TextFull}}

\* main() before a round whose fetches are answered from OrderResponses.
InitOrder ==
    /\ TESTFLIGHT_URLS \in OrderConfigs
    /\ NOFITY_CONFIG \in RoundNotifyConfigs
    /\ aes_key = NotifierKey(Key16, NoKey)
    /\ pc_main = "start"
    /\ enable_loop = ENABLE_LOOP
    /\ loop_duration = LOOP_DURATION
    /\ NoRound
    /\ call = NoCall
    /\ sends = <<>>
    /\ results = <<>>
    /\ dec = NoDec

NextOrder ==
    \/ StartRound
    \/ \E i \in DOMAIN tasks : TaskStart(i)
    \/ \E i \in DOMAIN tasks, r \in OrderResponses : Respond(i, r)
    \/ \E i \in DOMAIN tasks : RequestFail(i)
    \/ \E i \in DOMAIN tasks : BackoffDone(i)
    \/ Consume
    \/ EndFetch
    \/ \E k \in DOMAIN sends : SendStart(k)
    \/ \E k \in DOMAIN sends : SendBark(k)
    \/ NotifyReturn
    \/ DurationCheck

SpecOrder == InitOrder /\ [][NextOrder]_vars

\* The settings of lines 9 and 11 main() may run under: the loop with a
\* budget, the loop without one, and single-shot mode.
LoopConfigs ==
    { [enable |-> TRUE, duration |-> LOOP_DURATION],
      [enable |-> TRUE, duration |-> 0],
      [enable |-> FALSE, duration |-> LOOP_DURATION] }

\* main() under one of the loop settings.
InitLoop ==
    /\ TESTFLIGHT_URLS \in OrderConfigs
    /\ NOFITY_CONFIG \in RoundNotifyConfigs
    /\ aes_key = NotifierKey(Key16, NoKey)
    /\ pc_main = "start"
    /\ \E c \in LoopConfigs :
          /\ enable_loop = c.enable
          /\ loop_duration = c.duration
    /\ NoRound
    /\ call = NoCall
    /\ sends = <<>>
    /\ results = <<>>
    /\ dec = NoDec

NextLoop ==
    \/ StartRound
    \/ \E i \in DOMAIN tasks : TaskStart(i)
    \/ \E i \in DOMAIN tasks, r \in OrderResponses : Respond(i, r)
    \/ Consume
    \/ EndFetch
    \/ \E k \in DOMAIN sends : SendStart(k)
    \/ \E k \in DOMAIN sends : SendBark(k)
    \/ NotifyReturn
    \/ DurationCheck
    \/ WaitDone

SpecLoop == InitLoop /\ [][NextLoop]_vars

\* The rounds checked for termination have up to this many Targets.
MaxTargets == 3

\* Servers that answer with a status without the sentinel or with it.
LiveResponses ==
    {[status |-> "200", body |-> Page(t)] : t \in {TextOpen, TextFull}}

\* A bark endpoint whose URL cannot be decoded before one that can be reached.
LiveNotifyConfigs == { [bark |-> <<BarkBroken, BarkPlain>>] }

\* main() before a round in which fetches and sends may fail in every way.
InitLive ==
    /\ TESTFLIGHT_URLS \in OrderConfigs
    /\ NOFITY_CONFIG \in LiveNotifyConfigs
    /\ aes_key = NotifierKey(Key16, NoKey)
    /\ pc_main = "start"
    /\ enable_loop = ENABLE_LOOP
    /\ loop_duration = LOOP_DURATION
    /\ NoRound
    /\ call = NoCall
    /\ sends = <<>>
    /\ results = <<>>
    /\ dec = NoDec

\* The request of task i ends: with a response, with an exception of the
\* request (the session's ClientTimeout bounds it), or with an exception
\* raised while the response is handled.
RequestEnds(i) ==
    \/ \E r \in LiveResponses : Respond(i, r)
    \/ RequestFail(i)
    \/ UnexpectedError(i)
    \/ TaskRaise(i)

NextLive ==
    \/ StartRound
    \/ \E i \in DOMAIN tasks : TaskStart(i)
    \/ \E i \in DOMAIN tasks : RequestEnds(i)
    \/ \E i \in DOMAIN tasks : BackoffDone(i)
    \/ Consume
    \/ EndFetch
    \/ \E k \in DOMAIN sends : SendStart(k)
    \/ \E k \in DOMAIN sends : SendBark(k)
    \/ NotifyReturn
    \/ DurationCheck

\* The event loop runs every coroutine that is ready (tasks, the round's
\* loop, notify and its sends), every sleep ends, and every request ends
\* (timeout=5 in the sends, ClientTimeout(total=15) in the fetches).
Fairness ==
    /\ \A i \in 1..MaxTargets :
          /\ WF_vars(i \in DOMAIN tasks /\ TaskStart(i))
          /\ WF_vars(i \in DOMAIN tasks /\ RequestEnds(i))
          /\ WF_vars(i \in DOMAIN tasks /\ BackoffDone(i))
    /\ WF_vars(Consume)
    /\ WF_vars(EndFetch)
    /\ \A k \in 1..MaxTargets :
          /\ WF_vars(k \in DOMAIN sends /\ SendStart(k))
          /\ WF_vars(k \in DOMAIN sends /\ SendBark(k))
    /\ WF_vars(NotifyReturn)

SpecLive == InitLive /\ [][NextLive]_vars /\ Fairness

(***************************************************************************)
(* Properties.                                                             *)
(***************************************************************************)
\* The configured Target of the i-th task.
TargetOf(i) == task_map[TaskObj(i)]

\* The as_completed loop has handed out task i.
Consumed(i) == Finished(i) /\ \A k \in DOMAIN done_q : done_q[k] /= i

\* The as_completed loop of the current round is over.
LoopOver == loop_count > 0 /\ pc_main \in {"notify", "check", "wait", "exit"}

\* The text holds the word full in some mix of letter cases.
HasFullAnyCase(s) ==
    \E k \in 0..(Len(s) - 4) :
        /\ s[k + 1] \in {"f", "F"}
        /\ s[k + 2] \in {"u", "U"}
        /\ s[k + 3] \in {"l", "L"}
        /\ s[k + 4] \in {"l", "L"}

\* Task i returned a status: neither None nor the empty text.
PresentStatus(i) ==
    tasks[i].pc = "done" /\ tasks[i].result /= None /\ tasks[i].result /= <<>>

\* Task i returned a present status without the sentinel word.
Notifiable(i) == PresentStatus(i) /\ ~HasFullAnyCase(tasks[i].result)

\* The dedup key of task i's finding: its Target and its status in lower case.
FindingKey(i) == <<TargetOf(i)[1], TargetOf(i)[2], Lower(tasks[i].result)>>

\* C1: in every state of every round, a task whose status holds the word full
\* in any letter case has made no line of notify_results.
C1_FullNeverNotified ==
    \A i \in DOMAIN tasks :
        PresentStatus(i) /\ HasFullAnyCase(tasks[i].result)
            => \A k \in DOMAIN line_src : line_src[k] /= i

\* A round is over in which FULL and "This beta is full." were consumed beside
\* a status that made a line.
C1_Witness ==
    /\ LoopOver
    /\ notify_results /= <<>>
    /\ \E i, j \in DOMAIN tasks :
          /\ tasks[i].result = TextFULL /\ Consumed(i)
          /\ tasks[j].result = TextBetaFull /\ Consumed(j)

\* C2: once the loop of a round is over, notify_results has as many lines as
\* there are distinct (group, url, status) keys among the findings with a
\* present status without the sentinel.
C2_LinesEqualDistinctKeys ==
    LoopOver =>
        Len(notify_results)
            = Cardinality({FindingKey(i) : i \in {j \in DOMAIN tasks : Notifiable(j)}})

\* C3: every line is "<group> - <url>: <status>" of the Target whose task
\* returned the status.
C3_LinesNameTheirTarget ==
    \A k \in DOMAIN notify_results :
        notify_results[k]
            = FormatLine(TargetOf(line_src[k])[1], TargetOf(line_src[k])[2],
                         tasks[line_src[k]].result)

\* C4: a task that came to the end of its third failed attempt's backoff has
\* returned None, has not raised, and has made no line.
C4_ExhaustedReturnsAbsent ==
    \A i \in DOMAIN tasks :
        tasks[i].why = "exhausted"
            => /\ tasks[i].pc = "done"
               /\ tasks[i].result = None
               /\ \A k \in DOMAIN line_src : line_src[k] /= i

\* A round is over in which one task ran out of attempts and another made a
\* line.
C4_Witness ==
    /\ LoopOver
    /\ \E i \in DOMAIN tasks : tasks[i].why = "exhausted" /\ Consumed(i)
    /\ notify_results /= <<>>

\* C5: the tasks between acquiring and releasing (request in flight or backing
\* off) are never more than CONCURRENCY_LIMIT, the free permits are the rest,
\* and a task waits at the acquisition only while all permits are taken.
C5_PermitBound ==
    LET holders == {i \in DOMAIN tasks : Holding(i)}
        waiting == {i \in DOMAIN tasks : tasks[i].pc = "waiting"}
    IN /\ Cardinality(holders) <= CONCURRENCY_LIMIT
       /\ sem_value = CONCURRENCY_LIMIT - Cardinality(holders)
       /\ waiting = Range(waiters)
       /\ waiting /= {} => Cardinality(holders) = CONCURRENCY_LIMIT

\* All permits are taken and a task waits.
C5_Witness ==
    /\ pc_main = "fetch"
    /\ Cardinality({i \in DOMAIN tasks : Holding(i)}) = CONCURRENCY_LIMIT
    /\ \E i \in DOMAIN tasks : tasks[i].pc = "waiting"

\* C6: notify is not called while the loop of a round runs; once the loop is
\* over it has been called exactly once if some consumed finding has a present
\* status without the sentinel, and not at all (no call, no send) otherwise.
C6_DispatchOnceIffFinding ==
    /\ Len(dispatched) <= 1
    /\ pc_main = "fetch" => dispatched = <<>> /\ call = NoCall /\ sends = <<>>
    /\ LoopOver =>
          IF \E i \in DOMAIN tasks : Notifiable(i) /\ Consumed(i)
          THEN Len(dispatched) = 1 /\ call = dispatched[1]
          ELSE dispatched = <<>> /\ call = NoCall /\ sends = <<>> /\ results = <<>>

\* A round with a finding to report is over and notify has returned.
C6_Witness ==
    /\ pc_main = "check"
    /\ Len(dispatched) = 1
    /\ Len(results) = 1

\* C7: when a task of the round ended in an exception, the loop still hands
\* out every task, the failed task makes no line, and every other task with a
\* present status without the sentinel has the line of its key in
\* notify_results.
C7_OthersStillNotified ==
    LoopOver /\ (\E i \in DOMAIN tasks : tasks[i].why \in {"unexpected", "raised"})
        => /\ \A j \in DOMAIN tasks : Consumed(j)
           /\ \A i \in DOMAIN tasks :
                 tasks[i].why \in {"unexpected", "raised"}
                    => \A k \in DOMAIN line_src : line_src[k] /= i
           /\ \A j \in DOMAIN tasks :
                 Notifiable(j)
                    => \E k \in DOMAIN line_src : FindingKey(line_src[k]) = FindingKey(j)

\* The endpoints a notify call with these platforms addresses.
EndpointsOf(config, platforms) ==
    LET of(name) == IF platforms = AllPlatforms \/ name \in platforms
                    THEN ConfigGet(config, name) ELSE <<>>
    IN of("webhook") \o of("wechat") \o of("bark")

\* C8: a notify call that has returned gave one outcome per addressed endpoint,
\* in order; every send ran (none was skipped or cancelled), an endpoint whose
\* request got a response has that response as its outcome, and an endpoint
\* whose send failed or raised has a failure as its outcome.
C8_OneOutcomePerEndpoint ==
    pc_main = "exit" /\ call /= NoCall =>
        LET eps == EndpointsOf(NOFITY_CONFIG, call.platforms)
        IN /\ Len(results) = Len(eps)
           /\ Len(sends) = Len(eps)
           /\ \A k \in 1..Len(eps) :
                 /\ sends[k].conf = eps[k]
                 /\ sends[k].io /= <<>>
                 /\ LET last == sends[k].io[Len(sends[k].io)]
                    IN IF last[1] = "response" /\ last[2] \in HttpStatuses
                       THEN results[k] = <<"resp", last[2]>>
                       ELSE results[k][1] \in {"failed", "exception"}

\* A call to three endpoints has returned: one send raised, one failed, one got
\* a response.
C8_Witness ==
    /\ pc_main = "exit"
    /\ Len(results) = 3
    /\ \E k \in 1..3 : results[k][1] = "exception"
    /\ \E k \in 1..3 : results[k][1] = "failed"
    /\ \E k \in 1..3 : results[k][1] = "resp"

KeyAbsent == aes_key = NoKey \/ aes_key = <<>>

KeyBadSize == ~KeyAbsent /\ Len(Utf8Encode(aes_key)) \notin KeySizes

\* The decrypted data ends in a byte that is no PKCS pad length for it.
BadPadding ==
    /\ ~KeyAbsent
    /\ LET d == CipherDecrypt(Utf8Encode(aes_key), dec.secret_enc)
       IN /\ d.ok
          /\ d.value /= <<>>
          /\ LET pad == d.value[Len(d.value)]
             IN pad = 0 \/ pad > BlockSize \/ pad > Len(d.value)

\* C9: decrypt_secret raises whenever the key is absent, the key has no valid
\* size, or the padding is invalid.
C9_InvalidInputsRaise ==
    pc_main = "exit" /\ dec.kind /= "none" /\ (KeyAbsent \/ KeyBadSize \/ BadPadding)
        => ~dec.out.ok

\* C10: decrypting, with the key it was encrypted with, the base64 of the
\* ECB-encrypted PKCS-padded plaintext returns the plaintext.
C10_RoundTrip ==
    pc_main = "exit" /\ dec.kind = "padded" /\ aes_key = dec.key
        => dec.out.ok /\ dec.out.value = dec.data

\* A plaintext of exactly one block, so a whole block of padding, came back
\* under a 32-byte key.
C10_Witness ==
    /\ pc_main = "exit"
    /\ dec.kind = "padded"
    /\ aes_key = Key32
    /\ dec.key = Key32
    /\ Len(dec.data) = BlockSize
    /\ dec.out.ok

\* The entries of the configuration outside the reserved group.
PolledEntries ==
    {e \in DOMAIN TESTFLIGHT_URLS : TESTFLIGHT_URLS[e].group /= ExampleGroup}

\* C11: in every round no task belongs to the group exampleGroup, every task
\* fetches the URL of its Target, a URL some other group lists, and each listing
\* of a URL under another group has exactly one task (as many tasks of the
\* Target as the group lists the URL).
C11_ExampleGroupNeverFetched ==
    pc_main \in {"fetch", "notify", "check"} =>
        /\ DOMAIN task_map = {TaskObj(i) : i \in DOMAIN tasks}
        /\ \A i \in DOMAIN tasks :
              /\ TargetOf(i)[1] /= ExampleGroup
              /\ tasks[i].url = TargetOf(i)[2]
              /\ \E e \in PolledEntries :
                    /\ TESTFLIGHT_URLS[e].group = TargetOf(i)[1]
                    /\ tasks[i].url \in Range(TESTFLIGHT_URLS[e].urls)
        /\ \A e \in PolledEntries :
              \A u \in Range(TESTFLIGHT_URLS[e].urls) :
                  Cardinality({i \in DOMAIN tasks :
                                  TargetOf(i) = <<TESTFLIGHT_URLS[e].group, u>>})
                    = Cardinality({k \in DOMAIN TESTFLIGHT_URLS[e].urls :
                                      TESTFLIGHT_URLS[e].urls[k] = u})

\* The second round of a configuration with an exampleGroup entry has its
\* requests in flight.
C11_Witness ==
    /\ loop_count = 2
    /\ pc_main = "fetch"
    /\ \E e \in DOMAIN TESTFLIGHT_URLS : TESTFLIGHT_URLS[e].group = ExampleGroup
    /\ Len(tasks) = 2
    /\ \A i \in DOMAIN tasks : tasks[i].pc = "request"

\* C12: when a round from the second on has returned, every (group, url,
\* status) key with a present status without the sentinel that was found both
\* in it and in the round before has a line in each of the two rounds, and each
\* of the two rounds called notify once.
C12_BothRoundsEmitLine ==
    loop_count >= 2 /\ pc_main = "check" =>
        \A k \in prev.keys \cap RoundSummary.keys :
            /\ k \in prev.lined
            /\ k \in RoundSummary.lined
            /\ prev.dispatches = 1
            /\ Len(dispatched) = 1

\* C13: a round that has returned (the duration check is next) has ended and
\* handed out every task, and every send of its notify call has ended and its
\* results are back; between rounds no task and no send exists; a task that
\* has not started yet exists only in the fetch phase of its own round.
C13_RoundsNeverOverlap ==
    /\ pc_main = "check" =>
          /\ \A i \in DOMAIN tasks : Finished(i) /\ Consumed(i)
          /\ n_consumed = Len(tasks)
          /\ waiters = <<>>
          /\ \A k \in DOMAIN sends : sends[k].pc = "done"
          /\ Len(results) = Len(sends)
          /\ dispatched /= <<>> => sends /= <<>>
    /\ pc_main \in {"start", "wait", "exit"} => tasks = <<>> /\ sends = <<>>
    /\ pc_main /= "fetch" => \A i \in DOMAIN tasks : Finished(i)

\* The tasks of a second round run after a first round that called notify.
C13_Witness ==
    /\ loop_count = 2
    /\ pc_main = "fetch"
    /\ prev.dispatches = 1
    /\ \E i \in DOMAIN tasks : tasks[i].pc = "backoff"

\* ceil(n / c)
CeilDiv(n, c) == (n + c - 1) \div c

\* C14: in a round of n fetches that each take one time unit and get a
\* response, under CONCURRENCY_LIMIT permits, a task waits only while all
\* permits are taken, and once every task has ended the clock shows
\* ceil(n / CONCURRENCY_LIMIT) units.
C14_FetchPhaseTime ==
    /\ pc_main = "fetch" /\ AllStarted /\ (\E i \in DOMAIN tasks : tasks[i].pc = "waiting")
          => Cardinality({i \in DOMAIN tasks : Holding(i)}) = CONCURRENCY_LIMIT
    /\ loop_count > 0 /\ pc_main \in {"fetch", "notify", "check"}
       /\ (\A i \in DOMAIN tasks : Finished(i))
          => clock = CeilDiv(Len(tasks), CONCURRENCY_LIMIT)

\* Ten fetches under two permits have all ended, after five units.
C14_Witness ==
    /\ pc_main = "check"
    /\ Len(tasks) = 10
    /\ CONCURRENCY_LIMIT = 2
    /\ clock = 5
    /\ \A i \in DOMAIN tasks : tasks[i].why = "text"

\* C15: once the loop of a round is over, every task of the round has at
\* least one emitted log record about its outcome.
C15_EveryOutcomeLogged ==
    loop_count > 0 /\ pc_main \in {"notify", "check"} =>
        \A i \in DOMAIN tasks : \E r \in log : r.src = i

\* C16: when the fetch phase of a round has ended (every task has ended), all
\* CONCURRENCY_LIMIT permits are free and no task is queued for one, whatever
\* the way each task ended.
C16_PermitsAllReturned ==
    loop_count > 0 /\ pc_main \in {"fetch", "notify", "check"}
    /\ (\A i \in DOMAIN tasks : Finished(i))
        => sem_value = CONCURRENCY_LIMIT /\ waiters = <<>>

\* A round of three tasks under two permits is over: one task ran out of
\* attempts, one met an unexpected exception and one a parser exception.
C16_Witness ==
    /\ pc_main = "check"
    /\ Len(tasks) = 3
    /\ \E i, j, k \in DOMAIN tasks :
          /\ tasks[i].why = "exhausted"
          /\ tasks[j].why = "unexpected"
          /\ tasks[k].why = "parse_error"
    /\ sem_value = CONCURRENCY_LIMIT

\* A request is issued for task i in this step.
RequestIssued(i) ==
    /\ tasks'[i].pc = "request"
    /\ tasks[i].pc /= "request" \/ tasks'[i].attempt /= tasks[i].attempt

\* A step within the fetch phase of a round.
FetchStep == pc_main = "fetch" /\ pc_main' = "fetch"

\* C17: in every step of a fetch phase, for every task: its attempts are
\* numbered 0, 1, 2; its first request follows the acquisition and any later
\* request follows the end of a backoff, with the next attempt number; a backoff
\* starts only at a failed request and lasts 500, 1000 and 2000 milliseconds
\* after the first, second and third failure; after the third backoff the task
\* ends without a request.
C17_RetryPolicy ==
    [][FetchStep =>
        \A i \in DOMAIN tasks :
            /\ tasks'[i].attempt \in 0..2
            /\ RequestIssued(i) =>
                  \/ tasks[i].pc \in {"created", "waiting"} /\ tasks'[i].attempt = 0
                  \/ /\ tasks[i].pc = "backoff"
                     /\ tasks'[i].attempt = tasks[i].attempt + 1
            /\ tasks'[i].pc = "backoff" /\ tasks[i].pc /= "backoff" =>
                  /\ tasks[i].pc = "request"
                  /\ tasks'[i].attempt = tasks[i].attempt
                  /\ tasks'[i].delay = CASE tasks[i].attempt = 0 -> 500
                                         [] tasks[i].attempt = 1 -> 1000
                                         [] tasks[i].attempt = 2 -> 2000
            /\ tasks[i].pc = "backoff" /\ tasks[i].attempt = 2
               /\ tasks'[i] /= tasks[i] => Finished(i)'
    ]_vars

\* A task sleeps two seconds after its third failed attempt.
C17_Witness ==
    \E i \in DOMAIN tasks :
        /\ tasks[i].pc = "backoff"
        /\ tasks[i].attempt = 2
        /\ tasks[i].delay = 2000

\* C18: in every step of a fetch phase, a task whose request is in flight
\* either stays as it is, starts a backoff (the request failed) or ends; a task
\* that has ended is not touched again, so no request follows a response; and
\* a task that got a response without the marker, without the nested element
\* or with a page the parser fails on has returned None.
C18_NoRetryAfterResponse ==
    [][FetchStep =>
        \A i \in DOMAIN tasks :
            /\ tasks[i].pc = "request" /\ tasks'[i] /= tasks[i] =>
                  tasks'[i].pc = "backoff" \/ Finished(i)'
            /\ Finished(i) => tasks'[i] = tasks[i]
            /\ tasks'[i].http /= "" => Finished(i)'
            /\ tasks'[i].why \in {"nomarker", "nospan", "parse_error"} =>
                  tasks'[i].pc = "done" /\ tasks'[i].result = None
    ]_vars

\* A task ended on a 500 response without the marker and another on a page the
\* parser failed on, while a third task is still at work.
C18_Witness ==
    /\ pc_main = "fetch"
    /\ \E i, j, k \in DOMAIN tasks :
          /\ tasks[i].why = "nomarker" /\ tasks[i].http = "500"
          /\ tasks[j].why = "parse_error"
          /\ Holding(k)

\* C19: whenever notify has been called in a round, and whenever the loop of
\* the round is over, every task of the round has ended and has been handed
\* out by the loop: none is waiting, in flight or backing off.
C19_DispatchAfterAllFetches ==
    (call /= NoCall \/ sends /= <<>> \/ dispatched /= <<>>
     \/ (loop_count > 0 /\ pc_main \in {"notify", "check"}))
        => /\ \A i \in DOMAIN tasks : tasks[i].pc \in {"done", "raised"}
           /\ Len(completed) = Len(tasks)
           /\ n_consumed = Len(tasks)
           /\ done_q = <<>>

\* notify runs in a round in which a task ran out of attempts, a task ended in
\* an exception and a task made a line.
C19_Witness ==
    /\ pc_main = "notify"
    /\ \E i, j \in DOMAIN tasks :
          /\ tasks[i].why = "exhausted"
          /\ tasks[j].pc = "raised"
    /\ line_src /= <<>>

\* The place of task i in the order in which the tasks ended.
CompletedAt(i) == CHOOSE k \in DOMAIN completed : completed[k] = i

\* C20: the tasks that made the lines ended in the order of their lines, and
\* the content handed to notify is the lines joined in that order.
C20_LinesInCompletionOrder ==
    /\ \A k, l \in DOMAIN line_src :
          k < l => CompletedAt(line_src[k]) < CompletedAt(line_src[l])
    /\ Len(line_src) = Len(notify_results)
    /\ dispatched /= <<>> => dispatched[1].content = Join(notify_results)

\* http://b, submitted second, ended before http://a, submitted first, and its
\* line comes first in the content handed to notify.
C20_Witness ==
    /\ pc_main = "notify"
    /\ line_src = <<2, 1>>
    /\ completed[1] = 2
    /\ tasks[1].result = TextOpen
    /\ tasks[2].result = TextClosed
    /\ call.content = Join(<<FormatLine(<<>>, <<>>, TextClosed),
                             FormatLine(<<>>, <<>>, TextOpen)>>)

\* Task i made a line of notify_results.
MadeLine(i) == \E k \in DOMAIN line_src : line_src[k] = i

\* C21: once the loop of a round is over, of the findings of one Target whose
\* statuses are equal up to letter case only the one that ended first has a
\* line, with its own spelling; and two findings whose Targets differ, be it
\* only in the letter case of the group or the URL, each have a line of their
\* key.
C21_OnlyStatusCaseFolded ==
    loop_count > 0 /\ pc_main \in {"notify", "check"} =>
        \A i, j \in {t \in DOMAIN tasks : Notifiable(t)} :
            /\ i /= j /\ FindingKey(i) = FindingKey(j) /\ CompletedAt(i) < CompletedAt(j)
                  => /\ ~MadeLine(j)
                     /\ \E k \in DOMAIN line_src :
                           /\ FindingKey(line_src[k]) = FindingKey(i)
                           /\ tasks[line_src[k]].result = tasks[i].result
            /\ TargetOf(i) /= TargetOf(j)
                  => \E k, l \in DOMAIN line_src :
                        /\ FindingKey(line_src[k]) = FindingKey(i)
                        /\ FindingKey(line_src[l]) = FindingKey(j)

\* The events of a send at which it fails.
FailureEvents ==
    {<<"config", "no secret_enc">>, <<"decrypt", "raised">>,
     <<"response", "no token">>, <<"response", "error">>}

\* Event e of io comes right after event d.
RightAfter(io, e, d) ==
    \A n \in DOMAIN io : io[n] = e => n > 1 /\ io[n - 1] = d

\* C22: at every moment of a notify call the events of every wechat send are a
\* beginning of: decrypt ok, token GET, token response, message POST, response.
\* The token GET comes right after a successful decryption and the message
\* POST right after a token response; a failure event (no secret_enc, decrypt
\* raised, no token, request error) is the send's last event and gives it a
\* failed outcome; and once notify has returned every other send has an
\* outcome of its own, the response it got if it got one.
C22_WechatStepsInOrder ==
    \A k \in DOMAIN sends :
        sends[k].kind = "wechat" =>
            LET io == sends[k].io
            IN /\ \A m, n \in DOMAIN io : m /= n => io[m] /= io[n]
               /\ RightAfter(io, <<"GET", "token">>, <<"decrypt", "ok">>)
               /\ RightAfter(io, <<"response", "token">>, <<"GET", "token">>)
               /\ RightAfter(io, <<"response", "no token">>, <<"GET", "token">>)
               /\ RightAfter(io, <<"POST", "message">>, <<"response", "token">>)
               /\ \A n \in DOMAIN io :
                     /\ io[n] = <<"decrypt", "ok">> => n = 1
                     /\ io[n] \in FailureEvents =>
                           /\ n = Len(io)
                           /\ sends[k].pc = "done"
                           /\ sends[k].outcome[1] = "failed"
               /\ pc_main = "exit" /\ sends[k].outcome[1] = "failed" =>
                     \A j \in DOMAIN sends \ {k} :
                         /\ sends[j].pc = "done"
                         /\ results[j] = sends[j].outcome
                         /\ LET last == sends[j].io[Len(sends[j].io)]
                            IN last[1] = "response" /\ last[2] \in HttpStatuses
                                  => results[j] = <<"resp", last[2]>>

\* notify has returned: a wechat send failed at the token GET, after a good
\* decryption and without a message POST, and the bark send after it got its
\* response.
C22_Witness ==
    /\ pc_main = "exit"
    /\ \E k, j \in DOMAIN sends :
          /\ sends[k].kind = "wechat"
          /\ sends[k].io = << <<"decrypt", "ok">>, <<"GET", "token">>,
                              <<"response", "no token">> >>
          /\ results[k][1] = "failed"
          /\ j > k
          /\ sends[j].kind = "bark"
          /\ results[j] = <<"resp", "200">>

\* The sends of one channel type, in the order of notify's list.
SendsOf(kind) == SelectSeq(sends, LAMBDA x : x.kind = kind)

\* C23: from the moment notify has built its list, each channel type that was
\* asked for (or every type, when platforms is None) has exactly one send per
\* endpoint configured for it, in the order of the configuration, and a type
\* that was not asked for has none.
C23_OneSendPerRequestedEndpoint ==
    call /= NoCall /\ pc_main \in {"notify", "exit"} /\ loop_count = 0 =>
        \A kind \in {"webhook", "wechat", "bark"} :
            LET confs == IF kind \in DOMAIN NOFITY_CONFIG
                         THEN NOFITY_CONFIG[kind] ELSE <<>>
            IN IF call.platforms = AllPlatforms \/ kind \in call.platforms
               THEN /\ Len(SendsOf(kind)) = Len(confs)
                    /\ \A n \in DOMAIN confs : SendsOf(kind)[n].conf = confs[n]
               ELSE SendsOf(kind) = <<>>

\* notify was called with platforms None for a configuration of one webhook,
\* one wechat and two bark endpoints and has returned four results.
C23_Witness ==
    /\ pc_main = "exit"
    /\ call.platforms = AllPlatforms
    /\ Len(SendsOf("webhook")) = 1
    /\ Len(SendsOf("wechat")) = 1
    /\ Len(SendsOf("bark")) = 2
    /\ Len(results) = 4

Holders == {j \in DOMAIN tasks : Holding(j)}

\* C27: in every step of the fetch phase, a task that enters or leaves a
\* backoff sleep leaves the semaphore's counter and queue as they are, so it
\* still counts among the permit holders; and a task issues its first request
\* in a step only if fewer than CONCURRENCY_LIMIT tasks held a permit before
\* the step or a holder ended in that very step.
C27_PermitHeldThroughBackoff ==
    [][FetchStep =>
          \A i \in DOMAIN tasks :
              /\ \/ tasks[i].pc = "request" /\ tasks'[i].pc = "backoff"
                 \/ tasks[i].pc = "backoff" /\ tasks'[i].pc = "request"
                    => /\ sem_value' = sem_value
                       /\ waiters' = waiters
                       /\ Cardinality(Holders') = Cardinality(Holders)
              /\ tasks[i].pc \in {"created", "waiting"} /\ tasks'[i].pc = "request"
                    => \/ Cardinality(Holders) < CONCURRENCY_LIMIT
                       \/ \E j \in Holders : tasks'[j].pc \in {"done", "raised"}
    ]_vars

\* All CONCURRENCY_LIMIT permits are held by tasks in a backoff sleep, one of
\* them after its last attempt, and a third task is queued for a permit.
C27_Witness ==
    /\ pc_main = "fetch"
    /\ Cardinality({j \in DOMAIN tasks : tasks[j].pc = "backoff"}) = CONCURRENCY_LIMIT
    /\ \E j \in DOMAIN tasks :
          tasks[j].pc = "backoff" /\ tasks[j].attempt = MaxAttempts - 1
    /\ \E i \in DOMAIN tasks : tasks[i].pc = "waiting"
    /\ sem_value = 0

\* Task i got a page whose span holds no text: it returned the empty text.
EmptyStatus(i) ==
    tasks[i].pc = "done" /\ tasks[i].why = "text" /\ tasks[i].result = <<>>

\* C28: a task that returned the empty status text and was handed out by the
\* as_completed loop has no log record, made no line, and no key of the seen
\* set holds the empty status; the round has as many lines and keys as its
\* other tasks alone account for.
C28_EmptyStatusIsAbsent ==
    pc_main \in {"fetch", "notify", "check"} =>
        /\ \A i \in DOMAIN tasks :
              EmptyStatus(i) /\ Consumed(i) =>
                  /\ \A r \in log : r.src /= i
                  /\ ~MadeLine(i)
        /\ \A key \in seen : key[3] /= <<>>
        /\ \A k \in DOMAIN line_src : ~EmptyStatus(line_src[k])
        /\ Len(notify_results) = Len(line_src)
        /\ Cardinality(seen) = Len(line_src)

\* The round is over: one task returned the empty text, another a status that
\* made the round's only line.
C28_Witness ==
    /\ pc_main = "check"
    /\ \E i, j \in DOMAIN tasks :
          /\ EmptyStatus(i)
          /\ Notifiable(j)
          /\ line_src = <<j>>
          /\ CompletedAt(i) < CompletedAt(j)

\* C29: whatever a round dispatches, every send of its notify call is a bark
\* send, one per configured bark endpoint, and the only network events are
\* bark GETs and their responses: no webhook POST, no decryption, no token
\* GET and no message POST, although webhook and wechat endpoints are
\* configured.
C29_RoundReachesOnlyBark ==
    loop_count > 0 =>
        /\ ConfigGet(NOFITY_CONFIG, "webhook") /= <<>>
        /\ ConfigGet(NOFITY_CONFIG, "wechat") /= <<>>
        /\ dec = NoDec
        /\ \A n \in DOMAIN dispatched : dispatched[n].platforms = {"bark"}
        /\ sends /= <<>> => Len(sends) = Len(ConfigGet(NOFITY_CONFIG, "bark"))
        /\ \A k \in DOMAIN sends :
              /\ sends[k].kind = "bark"
              /\ \A n \in DOMAIN sends[k].io :
                    /\ sends[k].io[n][1] \notin {"POST", "decrypt", "config"}
                    /\ sends[k].io[n][1] = "GET" => sends[k].io[n][2] = "bark"

\* A round dispatched its lines and notify returned the bark endpoint's
\* response as its only result.
C29_Witness ==
    /\ loop_count > 0
    /\ pc_main = "check"
    /\ Len(dispatched) = 1
    /\ results = << <<"resp", "200">> >>
    /\ sends[1].io = << <<"GET", "bark">>, <<"response", "200">> >>

\* The program is inside a round: check_and_notify has not returned, or has
\* and line 132 is about to be evaluated.
RoundPhases == {"fetch", "notify", "check"}

\* C26: in loop mode the condition of line 132 has been evaluated once per
\* completed round and not yet for the round under way; the program is in the
\* inter-round wait exactly after a check that did not see a positive budget
\* reached, and has left the loop only after a check that saw
\* loop_duration > 0 and elapsed >= loop_duration, so at least one round ran
\* and a budget of 0 never ends the loop; in single-shot mode no check is
\* made, there is no wait, and the program ends after exactly one round.
C26_BudgetCheckedBetweenRounds ==
    /\ enable_loop =>
          /\ n_checks = IF pc_main \in RoundPhases THEN loop_count - 1
                        ELSE loop_count
          /\ pc_main = "exit" =>
                /\ loop_count >= 1
                /\ loop_duration > 0
                /\ elapsed >= loop_duration
          /\ pc_main = "wait" => ~(loop_duration > 0 /\ elapsed >= loop_duration)
          /\ loop_duration = 0 => pc_main /= "exit"
    /\ ~enable_loop =>
          /\ n_checks = 0
          /\ pc_main /= "wait"
          /\ loop_count <= 1
          /\ pc_main = "exit" => loop_count = 1

\* The loop was left after its second round, by the second check, which saw
\* the elapsed time equal to the budget.
C26_Witness ==
    /\ enable_loop
    /\ pc_main = "exit"
    /\ loop_count = 2
    /\ n_checks = 2
    /\ elapsed = loop_duration

\* C25: under fair scheduling and requests that end, a round that has created
\* its tasks reaches its end (check_and_notify returns), every task queued for
\* a permit ends, and a notify call that was entered returns, whatever fetches
\* and sends fail.
C25_RoundCompletes ==
    /\ (pc_main = "fetch") ~> (pc_main = "check")
    /\ (pc_main = "notify") ~> (pc_main = "check")
    /\ \A i \in 1..MaxTargets :
          (i \in DOMAIN tasks /\ tasks[i].pc \in {"created", "waiting"})
              ~> (i \in DOMAIN tasks /\ Finished(i))

\* A round reached its end although one task gave up after its last attempt,
\* one ended with an exception, and of the two sends one raised and the other
\* failed.
C25_Witness ==
    /\ pc_main = "check"
    /\ \E i, j, m \in DOMAIN tasks :
          /\ tasks[i].why = "exhausted"
          /\ tasks[j].pc = "raised"
          /\ Notifiable(m)
    /\ Len(results) = 2
    /\ results[1][1] = "exception"
    /\ results[2][1] = "failed"

=============================================================================
